---- MODULE Spec2Model ----
(***************************************************************************)
(* A model of censync/go-validator: the rule registry of a Validator, the  *)
(* tag parser, the value validator and the record traversal.              *)
(*                                                                         *)
(* Go strings are sequences of one-character strings, so that the regular  *)
(* expression of parseTags, strings.Trim, strings.Replace and              *)
(* strings.HasPrefix are computed as the code computes them.               *)
(***************************************************************************)
EXTENDS Integers, Sequences, FiniteSets, TLC

\* vals: the Validator objects, vals[1] being defaultValidator; a Validator's
\*       validationFuncs is a reference to a map of the heap
\* heap: the maps, each from rule names to validation functions
\* hist: what the calls so far asked for: per Validator the tag name last given
\*       to it, per map the function last set for each rule name
\* out:  the last call and what it returned
\* arg:  the data the caller holds: the record it validates, or the annotation
\*       it parses
\* threads: where the goroutine that validates and the goroutine that registers
\*       stand inside their calls, when the calls are taken step by step
VARIABLES vals, heap, hist, out, arg, threads

vars == <<vals, heap, hist, out, arg, threads>>

\* a goroutine outside any call
Idle == [pc |-> "idle"]
NoThreads == [validating |-> Idle, writing |-> Idle]

(***************************************************************************)
(* Bounds of the model.                                                    *)
(***************************************************************************)
\* validators that exist at once (defaultValidator included)
MaxValidators == 2
\* directives in one generated annotation
MaxItems == 3
\* directives in one annotation given to parseTags alone
MaxParseItems == 2
\* directives in the annotation validated while the registry is written
MaxRaceItems == 2
\* depth of record nesting in the generated records
MaxDepth == 2

(***************************************************************************)
(* Strings.                                                                *)
(***************************************************************************)
\* body applied to the value of e, with e evaluated once
Let(body(_), e) == CHOOSE r \in {body(x) : x \in {e}} : TRUE

QUOTE == "'"
EQ == "="
COMMA == ","
SPACE == " "
DOT == "."

Max(a, b) == IF a >= b THEN a ELSE b

\* s[i..j], empty when j < i
Sub(s, i, j) == SubSeq(s, i, j)

\* strings.HasPrefix(s, p)
HasPrefix(s, p) == Len(s) >= Len(p) /\ Sub(s, 1, Len(p)) = p

\* strings.Trim(s, " "): leading and trailing spaces removed
TrimSpaces(s) ==
  LET keep == {i \in 1..Len(s) : s[i] # SPACE}
  IN  IF keep = {} THEN <<>>
      ELSE LET lo == CHOOSE i \in keep : \A j \in keep : i <= j
               hi == CHOOSE i \in keep : \A j \in keep : i >= j
           IN  Sub(s, lo, hi)

\* strings.Replace(s, old, new, 1): the first occurrence only
RECURSIVE ReplaceFirst(_, _, _)
ReplaceFirst(s, old, new) ==
  IF Len(s) < Len(old) THEN s
  ELSE IF HasPrefix(s, old) THEN new \o Sub(s, Len(old) + 1, Len(s))
       ELSE <<Head(s)>> \o ReplaceFirst(Tail(s), old, new)

\* strings.Replace(s, old, new, -1) for a non-empty old: every non-overlapping
\* occurrence, scanning from the left
RECURSIVE ReplaceAll(_, _, _)
ReplaceAll(s, old, new) ==
  IF Len(s) < Len(old) THEN s
  ELSE IF HasPrefix(s, old)
       THEN new \o ReplaceAll(Sub(s, Len(old) + 1, Len(s)), old, new)
       ELSE <<Head(s)>> \o ReplaceAll(Tail(s), old, new)

\* strings.Split(s, ",")
RECURSIVE SplitComma(_)
SplitComma(s) ==
  LET cs == {i \in 1..Len(s) : s[i] = COMMA}
  IN  IF cs = {} THEN <<s>>
      ELSE LET c == CHOOSE i \in cs : \A j \in cs : i <= j
           IN  <<Sub(s, 1, c - 1)>> \o SplitComma(Sub(s, c + 1, Len(s)))

(***************************************************************************)
(* The names and literals of the program.                                  *)
(***************************************************************************)
S_notempty == <<"n","o","t","e","m","p","t","y">>
S_empty == <<"e","m","p","t","y">>
S_len == <<"l","e","n">>
S_min == <<"m","i","n">>
S_max == <<"m","a","x">>
S_regexp == <<"r","e","g","e","x","p">>
S_in == <<"i","n">>
S_type == <<"t","y","p","e">>
tagAttr == <<"a","t","t","r">>
S_msg_ == <<"m","s","g","_">>
S_param == <<"{","p","a","r","a","m","}">>
S_summary == <<"_","s","u","m","m","a","r","y">>
S_dash == <<"-">>
S_base64 == <<"b","a","s","e","6","4">>
S_timestamp == <<"t","i","m","e","s","t","a","m","p">>

(***************************************************************************)
(* Errors.  A sentinel TextErr is named by its variable; errors.New(msg)   *)
(* carries its text.                                                       *)
(***************************************************************************)
NilErr == [k |-> "nil", msg |-> <<>>]
Sentinel(name) == [k |-> name, msg |-> <<>>]
ErrZeroValue == Sentinel("ErrZeroValue")
ErrMin == Sentinel("ErrMin")
ErrMax == Sentinel("ErrMax")
ErrLen == Sentinel("ErrLen")
ErrRegexp == Sentinel("ErrRegexp")
ErrUnsupported == Sentinel("ErrUnsupported")
ErrBadParameter == Sentinel("ErrBadParameter")
ErrUnknownTag == Sentinel("ErrUnknownTag")
ErrInvalidValue == Sentinel("ErrInvalidValue")
ErrInvalidTypedValue == Sentinel("ErrInvalidTypedValue")
ErrEmptyName == [k |-> "errors.New", msg |-> <<"n","a","m","e">>]
ErrorsNew(msg) == [k |-> "errors.New", msg |-> msg]

(***************************************************************************)
(* parseTags.                                                              *)
(* tagRegexp is: a group of one or more characters other than quote and    *)
(* equals sign, an equals sign, an optional quote, a group of zero or more *)
(* characters other than quote and equals sign, an optional quote, then a  *)
(* comma or the end of the text.  It is matched leftmost first: every      *)
(* quantifier is greedy, so of the ways to match at a position the one     *)
(* taken is the first in the order longest name, opening quote taken,      *)
(* longest value, closing quote taken.                                     *)
(***************************************************************************)
NameChar(c) == c # QUOTE /\ c # EQ

\* the ways tagRegexp matches s starting at position i: the name is
\* s[i..i+n-1], q1 and q2 tell whether each optional quote is consumed, the
\* value has v characters, and the match ends with a comma or at the end of s
MatchesAt(s, i) ==
  LET L == Len(s)
      IsQuote(p) == p <= L /\ s[p] = QUOTE
      Ends(p) == p = L + 1 \/ (p <= L /\ s[p] = COMMA)
      names == {n \in 1..(L - i) :
                  s[i + n] = EQ /\ \A j \in i..(i + n - 1) : NameChar(s[j])}
  IN  UNION {UNION {{[n |-> n, q1 |-> q1, v |-> v, q2 |-> q2] :
                       q2 \in {q \in 0..1 :
                                 /\ q = 1 => IsQuote(i + n + 1 + q1 + v)
                                 /\ Ends(i + n + 1 + q1 + v + q)}} :
                    v \in {w \in 0..(L - (i + n + q1)) :
                             \A j \in (i + n + 1 + q1)..(i + n + q1 + w) :
                                NameChar(s[j])}} :
               <<n, q1>> \in {x \in names \X (0..1) :
                                x[2] = 1 => IsQuote(i + x[1] + 1)}}

\* the order in which the backtracking prefers the ways to match
Prefers(c, d) ==
  \/ c.n > d.n
  \/ c.n = d.n /\ c.q1 > d.q1
  \/ c.n = d.n /\ c.q1 = d.q1 /\ c.v > d.v
  \/ c.n = d.n /\ c.q1 = d.q1 /\ c.v = d.v /\ c.q2 >= d.q2

\* the match at position i: its two groups and the position after it
MatchAt(s, i) ==
  LET ms == MatchesAt(s, i)
      c == CHOOSE x \in ms : \A y \in ms : Prefers(x, y)
      eq == i + c.n
      vs == eq + 1 + c.q1
      ve == vs + c.v - 1
      nx == ve + 1 + c.q2
  IN  [g1 |-> Sub(s, i, eq - 1), g2 |-> Sub(s, vs, ve),
       next |-> IF nx <= Len(s) THEN nx + 1 ELSE nx]

\* tagRegexp.FindAllStringSubmatch(s, -1) from position pos on
RECURSIVE FindAllFrom(_, _)
FindAllFrom(s, pos) ==
  LET starts == {i \in pos..Len(s) : MatchesAt(s, i) # {}}
  IN  IF starts = {} THEN <<>>
      ELSE LET i == CHOOSE x \in starts : \A y \in starts : x <= y
               m == MatchAt(s, i)
           IN  <<m>> \o FindAllFrom(s, m.next)

FindAllStringSubmatch(s) == FindAllFrom(s, 1)

\* the loop of parseTags over the matches: the first name that trims to
\* nothing ends it with (tagList{}, ErrUnknownTag)
RECURSIVE parseGroups(_, _)
parseGroups(match, tags) ==
  IF match = <<>> THEN [tags |-> tags, err |-> NilErr]
  ELSE LET group == Head(match)
           name == TrimSpaces(group.g1)
       IN  IF name = <<>> THEN [tags |-> <<>>, err |-> ErrUnknownTag]
           ELSE parseGroups(Tail(match),
                  Append(tags, [Name |-> name, Param |-> TrimSpaces(group.g2)]))

parseTags(t) == parseGroups(FindAllStringSubmatch(t), <<>>)

\* getByName returning the last tag of the name instead of the first
getByName_Last(tl, name) ==
  LET hits == {i \in 1..Len(tl) : tl[i].Name = name}
  IN  IF hits = {} THEN [exists |-> FALSE, tag |-> [Name |-> <<>>, Param |-> <<>>]]
      ELSE [exists |-> TRUE, tag |-> tl[CHOOSE i \in hits : \A j \in hits : i >= j]]

\* tagList.getByName: the first tag of that name
getByName(tl, name) ==
  LET hits == {i \in 1..Len(tl) : tl[i].Name = name}
  IN  IF hits = {} THEN [exists |-> FALSE, tag |-> [Name |-> <<>>, Param |-> <<>>]]
      ELSE [exists |-> TRUE, tag |-> tl[CHOOSE i \in hits : \A j \in hits : i <= j]]

(***************************************************************************)
(* The rule registry.                                                      *)
(***************************************************************************)
\* a nil ValidationFunc
NilFunc == "nil"

\* the functions a caller registers: one that always fails, one that never does
UserFuncs == {"userFail", "userOk"}

\* the map NewValidator builds
BuiltinFuncs ==
  (S_notempty :> "notZero") @@ (S_empty :> "notZero") @@ (S_len :> "length") @@
  (S_min :> "min") @@ (S_max :> "max") @@ (S_regexp :> "regex") @@
  (S_in :> "in") @@ (S_type :> "typeValid")

S_foo == <<"f","o","o">>
S_msg_min == S_msg_ \o S_min

\* the tag names of the model: the default and another
DefaultTag == "validate"
TagNames == {DefaultTag, "alt"}

\* the names history is kept for
RuleNames == DOMAIN BuiltinFuncs \cup {S_foo, tagAttr, S_msg_min}

NoCalls == [n \in RuleNames |-> "none"]

\* delete(m, name)
MapDelete(m, name) == [n \in DOMAIN m \ {name} |-> m[n]]

\* m[name] = vf
MapSet(m, name, vf) == [n \in DOMAIN m \cup {name} |-> IF n = name THEN vf ELSE m[n]]

\* SetFunc without the check of the name
SetFunc_NoNameCheck(m, name, vf) ==
  IF vf = NilFunc THEN [m |-> MapDelete(m, name), err |-> NilErr]
  ELSE [m |-> MapSet(m, name, vf), err |-> NilErr]

\* SetFunc storing a nil function instead of deleting the entry
SetFunc_StoreNil(m, name, vf) ==
  IF name = <<>> THEN [m |-> m, err |-> ErrEmptyName]
  ELSE [m |-> MapSet(m, name, vf), err |-> NilErr]

\* the body of SetValidationFunc on the map m: the map afterwards and the error
SetFunc(m, name, vf) ==
  IF name = <<>> THEN [m |-> m, err |-> ErrEmptyName]
  ELSE IF vf = NilFunc THEN [m |-> MapDelete(m, name), err |-> NilErr]
  ELSE [m |-> MapSet(m, name, vf), err |-> NilErr]

\* mv.copy(): the new Validator and the heap afterwards
copy(mv) ==
  [v |-> [tagName |-> vals[mv].tagName,
          validationFuncs |-> vals[mv].validationFuncs],
   heap |-> heap]

\* the Validators that hold a reference to the map of mv
Handles(mv) ==
  {w \in 1..Len(vals) : vals[w].validationFuncs = vals[mv].validationFuncs}

\* mv.validationFuncs, dereferenced
Funcs(mv) == heap[vals[mv].validationFuncs]

\* the state after var defaultValidator = NewValidator()
Init ==
  /\ heap = <<BuiltinFuncs>>
  /\ vals = <<[tagName |-> DefaultTag, validationFuncs |-> 1]>>
  /\ hist = [tag |-> <<DefaultTag>>, calls |-> <<NoCalls>>]
  /\ out = [call |-> "init"]
  /\ threads = NoThreads
  /\ arg = [kind |-> "none"]

NewValidator ==
  /\ Len(vals) < MaxValidators
  /\ heap' = Append(heap, BuiltinFuncs)
  /\ vals' = Append(vals, [tagName |-> DefaultTag,
                           validationFuncs |-> Len(heap) + 1])
  /\ hist' = [tag |-> Append(hist.tag, DefaultTag),
              calls |-> Append(hist.calls, NoCalls)]
  /\ out' = [call |-> "NewValidator", ret |-> NilErr]
  /\ UNCHANGED <<arg, threads>>

\* the tag name of mv after mv.SetTag(tag)
SetTagOn(vs, mv, tag) == [vs EXCEPT ![mv].tagName = tag]

\* mv.SetTag(tag); the package's SetTag(tag) is SetTag(1, tag)
SetTag(mv, tag) ==
  /\ vals' = SetTagOn(vals, mv, tag)
  /\ hist' = [hist EXCEPT !.tag[mv] = tag]
  /\ out' = [call |-> "SetTag", ret |-> NilErr]
  /\ UNCHANGED <<heap, arg, threads>>

\* WithTag setting the tag name of mv itself before copying it
WithTagVals_Permanent(mv, tag) ==
  Append(SetTagOn(vals, mv, tag), [copy(mv).v EXCEPT !.tagName = tag])

\* the Validators after mv.WithTag(tag): v := mv.copy(); v.SetTag(tag)
WithTagVals(mv, tag) ==
  SetTagOn(Append(vals, copy(mv).v), Len(vals) + 1, tag)

\* mv.WithTag(tag); the package's WithTag(tag) is WithTag(1, tag)
WithTag(mv, tag) ==
  /\ Len(vals) < MaxValidators
  /\ vals' = WithTagVals(mv, tag)
  /\ heap' = copy(mv).heap
  /\ hist' = [tag |-> Append(hist.tag, tag),
              calls |-> IF Len(heap') > Len(heap)
                        THEN Append(hist.calls, hist.calls[vals[mv].validationFuncs])
                        ELSE hist.calls]
  /\ out' = [call |-> "WithTag", ret |-> NilErr]
  /\ UNCHANGED <<arg, threads>>

\* mv.SetValidationFunc(name, vf); the package's SetValidationFunc(name, vf)
\* is SetValidationFunc(1, name, vf)
SetValidationFunc(mv, name, vf) ==
  LET r == SetFunc(Funcs(mv), name, vf)
  IN  /\ heap' = [heap EXCEPT ![vals[mv].validationFuncs] = r.m]
      /\ hist' = IF name = <<>> THEN hist
                 ELSE [hist EXCEPT !.calls[vals[mv].validationFuncs][name] = vf]
      /\ out' = [call |-> "SetValidationFunc", ret |-> r.err]
      /\ UNCHANGED <<vals, arg, threads>>

\* mv.validationFuncs[name]
Lookup(mv, name) ==
  IF name \in DOMAIN Funcs(mv)
  THEN [fn |-> Funcs(mv)[name], found |-> TRUE]
  ELSE [fn |-> NilFunc, found |-> FALSE]

(***************************************************************************)
(* The registry under its calls alone.                                     *)
(***************************************************************************)
RegistryNames == {<<>>, S_min, S_foo}

NextRegistry ==
  \/ NewValidator
  \/ \E mv \in 1..Len(vals), tag \in TagNames : SetTag(mv, tag)
  \/ \E mv \in 1..Len(vals), tag \in TagNames : WithTag(mv, tag)
  \/ \E mv \in 1..Len(vals), name \in RegistryNames,
        vf \in UserFuncs \cup {NilFunc} : SetValidationFunc(mv, name, vf)

SpecRegistry == Init /\ [][NextRegistry]_vars

(***************************************************************************)
(* Values.  A Go value is its reflect.Kind and what the rules read of it.  *)
(*   int, uint: n      string: s      bool: b                              *)
(*   ptr: isNil, elem  invalid: a nil interface                            *)
(*   struct: fields, each with its declared Name, its struct tag (a map    *)
(*   from tag names to annotations) and its value v                        *)
(***************************************************************************)
IntV(n) == [kind |-> "int", n |-> n]
UintV(n) == [kind |-> "uint", n |-> n]
StrV(s) == [kind |-> "string", s |-> s]
BoolV(b) == [kind |-> "bool", b |-> b]
NilV == [kind |-> "invalid"]
NilPtr == [kind |-> "ptr", isNil |-> TRUE]
PtrTo(v) == [kind |-> "ptr", isNil |-> FALSE, elem |-> v]
StructV(fields) == [kind |-> "struct", fields |-> fields]
Field(name, tag, v) == [Name |-> name, Tag |-> tag, v |-> v]

Digits == {"0", "1", "2", "3", "4", "5", "6", "7", "8", "9"}
Lower == {"a", "b", "c", "d", "e", "f", "g", "h", "i", "j", "k", "l", "m",
          "n", "o", "p", "q", "r", "s", "t", "u", "v", "w", "x", "y", "z"}
Upper == {"A", "B", "C", "D", "E", "F", "G", "H", "I", "J", "K", "L", "M",
          "N", "O", "P", "Q", "R", "S", "T", "U", "V", "W", "X", "Y", "Z"}

\* unicode.IsUpper(rune(c)) for an ASCII byte
IsUpper(c) == c \in Upper

DigitVal(c) ==
  CASE c = "0" -> 0 [] c = "1" -> 1 [] c = "2" -> 2 [] c = "3" -> 3 [] c = "4" -> 4
    [] c = "5" -> 5 [] c = "6" -> 6 [] c = "7" -> 7 [] c = "8" -> 8 [] c = "9" -> 9

RECURSIVE DecimalValue(_)
DecimalValue(s) ==
  IF s = <<>> THEN 0 ELSE 10 * DecimalValue(Sub(s, 1, Len(s) - 1)) + DigitVal(s[Len(s)])

\* strconv.ParseUint(param, 0, 64) on decimal numerals: the digits with no
\* leading zero (the base prefixes 0x, 0o, 0b, a leading 0 for octal and the
\* underscores base 0 allows are not written in the parameters of the model)
asUint(param) ==
  IF /\ param # <<>>
     /\ \A i \in 1..Len(param) : param[i] \in Digits
     /\ (Len(param) > 1 => param[1] # "0")
  THEN [ok |-> TRUE, n |-> DecimalValue(param)]
  ELSE [ok |-> FALSE, n |-> 0]

\* strconv.ParseInt(param, 0, 64): an optional sign before the numeral
asInt(param) ==
  IF param # <<>> /\ param[1] \in {"+", "-"}
  THEN LET u == asUint(Tail(param))
       IN  [ok |-> u.ok, n |-> IF param[1] = "-" THEN 0 - u.n ELSE u.n]
  ELSE asUint(param)

(***************************************************************************)
(* The built-in rules.  A rule returns an error, NilErr, or Panics when    *)
(* the Go function panics.                                                 *)
(***************************************************************************)
Panics == [k |-> "panic", msg |-> <<>>]
ErrUser == Sentinel("ErrUser")

notZero(v, param) ==
  CASE v.kind = "string" -> IF v.s # <<>> THEN NilErr ELSE ErrZeroValue
    [] v.kind = "ptr" -> IF ~v.isNil THEN NilErr ELSE ErrZeroValue
    [] v.kind = "int" -> IF v.n # 0 THEN NilErr ELSE ErrZeroValue
    [] v.kind = "uint" -> IF v.n # 0 THEN NilErr ELSE ErrZeroValue
    [] v.kind = "bool" -> IF v.b THEN NilErr ELSE ErrZeroValue
    [] v.kind = "invalid" -> ErrZeroValue
    [] OTHER -> ErrUnsupported

\* length, min and max differ in the comparison and the error only
Compare(v, param, bad(_, _), err) ==
  CASE v.kind = "string" ->
         LET p == asInt(param)
         IN  IF ~p.ok THEN ErrBadParameter
             ELSE IF bad(Len(v.s), p.n) THEN err ELSE NilErr
    [] v.kind = "int" ->
         LET p == asInt(param)
         IN  IF ~p.ok THEN ErrBadParameter
             ELSE IF bad(v.n, p.n) THEN err ELSE NilErr
    [] v.kind = "uint" ->
         LET p == asUint(param)
         IN  IF ~p.ok THEN ErrBadParameter
             ELSE IF bad(v.n, p.n) THEN err ELSE NilErr
    [] OTHER -> ErrUnsupported

length(v, param) == Compare(v, param, LAMBDA x, y : x # y, ErrLen)
min(v, param) == Compare(v, param, LAMBDA x, y : x < y, ErrMin)
max(v, param) == Compare(v, param, LAMBDA x, y : x > y, ErrMax)

\* s contains pat
Contains(s, pat) ==
  \E i \in 1..(Len(s) - Len(pat) + 1) : Sub(s, i, i + Len(pat) - 1) = pat

\* regex: the patterns of the model are literals (letters and digits), which
\* compile and match where they occur
regex(v, param) ==
  IF v.kind # "string" THEN ErrUnsupported
  ELSE IF Contains(v.s, param) THEN NilErr ELSE ErrRegexp

\* in: the parameters are converted before the value is read, and
\* reflect.Value.Int panics on a value of an unsigned kind
in(v, param) ==
  LET params == SplitComma(param)
  IN  CASE v.kind \in {"int", "uint"} ->
             IF \E i \in 1..Len(params) : ~asInt(params[i]).ok THEN ErrBadParameter
             ELSE IF v.kind = "uint" THEN Panics
             ELSE IF \E i \in 1..Len(params) : asInt(params[i]).n = v.n
                  THEN NilErr ELSE ErrInvalidValue
        [] v.kind = "string" ->
             IF \E i \in 1..Len(params) : params[i] = v.s
             THEN NilErr ELSE ErrInvalidValue
        [] OTHER -> ErrBadParameter

\* reflect.Value.String(): the string itself, or "<T Value>" for another kind
ValueString(v) ==
  IF v.kind = "string" THEN v.s
  ELSE <<"<">> \o
       (CASE v.kind = "int" -> <<"i","n","t">>
          [] v.kind = "uint" -> <<"u","i","n","t">>
          [] v.kind = "bool" -> <<"b","o","o","l">>
          [] v.kind = "ptr" -> <<"*","i","n","t">>
          [] OTHER -> <<"i","n","v","a","l","i","d">>)
       \o <<" ","V","a","l","u","e",">">>

\* regexpBase64: groups of four characters of the alphabet, the last one
\* possibly padded with = or ==
IsBase64(s) ==
  LET B64 == Lower \cup Upper \cup Digits \cup {"+", "/"}
      L == Len(s)
  IN  /\ L >= 4
      /\ L % 4 = 0
      /\ \A i \in 1..(L - 2) : s[i] \in B64
      /\ \/ s[L - 1] \in B64 /\ s[L] \in B64
         \/ s[L - 1] \in B64 /\ s[L] = "="
         \/ s[L - 1] = "=" /\ s[L] = "="

\* time.Parse(time.RFC3339, s) succeeds: every RFC 3339 time has a "T" after
\* a ten-character date and a ":" in its clock; the strings of the model that
\* have neither are rejected, and none has both
IsTimestamp(s) ==
  /\ Len(s) >= 20
  /\ s[11] = "T"
  /\ s[14] = ":"
  /\ \A i \in {1, 2, 3, 4, 6, 7, 9, 10, 12, 13} : s[i] \in Digits

typeValid(v, param) ==
  LET str == ValueString(v)
  IN  CASE param = S_timestamp ->
             IF IsTimestamp(str) THEN NilErr ELSE ErrInvalidTypedValue
        [] param = S_base64 ->
             IF IsBase64(str) THEN NilErr ELSE ErrInvalidTypedValue
        [] OTHER -> ErrBadParameter

\* fn(v, param) for a function of the registry
Apply(fn, v, param) ==
  CASE fn = "notZero" -> notZero(v, param)
    [] fn = "length" -> length(v, param)
    [] fn = "min" -> min(v, param)
    [] fn = "max" -> max(v, param)
    [] fn = "regex" -> regex(v, param)
    [] fn = "in" -> in(v, param)
    [] fn = "typeValid" -> typeValid(v, param)
    [] fn = "userFail" -> ErrUser
    [] fn = "userOk" -> NilErr

(***************************************************************************)
(* The annotations of the model.  An annotation is written from items      *)
(* name=value or name='value', joined by commas.                           *)
(***************************************************************************)
Item(name, value, quoted) == [name |-> name, value |-> value, quoted |-> quoted]

RenderItem(it) ==
  it.name \o <<EQ>> \o
  (IF it.quoted THEN <<QUOTE>> \o it.value \o <<QUOTE>> ELSE it.value)

RECURSIVE Render(_)
Render(items) ==
  IF items = <<>> THEN <<>>
  ELSE IF Len(items) = 1 THEN RenderItem(items[1])
  ELSE RenderItem(items[1]) \o <<COMMA>> \o Render(Tail(items))

SeqsUpTo(S, n) == UNION {[1..k -> S] : k \in 0..n}

S_al == <<"a","l">>
S_Bl == <<"B","l">>
I_min == Item(S_min, <<"3">>, FALSE)
I_max == Item(S_max, <<"0">>, FALSE)
I_foo == Item(S_foo, <<"1">>, FALSE)
I_attr_al == Item(tagAttr, S_al, FALSE)
I_attr_Bl == Item(tagAttr, S_Bl, FALSE)
I_msg1 == Item(S_msg_min, <<"m">> \o S_param \o S_param, TRUE)
I_msg2 == Item(S_msg_min, <<"n">>, FALSE)
I_in == Item(S_in, <<"1">>, FALSE)

\* the directive lists written on the fields: rules with aliases, rules with
\* message templates, rules with an unregistered name
ItemLists ==
  SeqsUpTo({I_min, I_attr_al, I_attr_Bl}, MaxItems) \cup
  SeqsUpTo({I_min, I_msg1, I_msg2}, MaxItems) \cup
  SeqsUpTo({I_min, I_max, I_foo}, MaxItems)

Annotations == {Render(l) : l \in ItemLists}

\* parseTags of the annotations above, computed once
Parsed == {<<a, parseTags(a)>> : a \in Annotations}

\* parseTags(t), read from Parsed where it is there
parseTagsOnce(t) ==
  IF t \in Annotations THEN (CHOOSE p \in Parsed : p[1] = t)[2] ELSE parseTags(t)

(***************************************************************************)
(* The value validator.  A result of type error is nil (no errs), one      *)
(* error (arr false) or an ErrorArray (arr true).  Beside the result the   *)
(* operators keep a log of what the call did: the rule functions it        *)
(* invoked ("call", with the error err the function returned and the error *)
(* rep appended to errs), and for Validate the fields it handed to valid   *)
(* ("valid") and its writes to the ErrorMap ("set", "merge").              *)
(***************************************************************************)
NoError == [arr |-> FALSE, errs |-> <<>>]
OneError(e) == [arr |-> FALSE, errs |-> <<e>>]
ErrorArray(errs) == [arr |-> TRUE, errs |-> errs]

\* the names validateVar skips when no function is registered for them
IsReservedName(name) == HasPrefix(name, S_msg_) \/ name = tagAttr

\* whether validateVar invokes a function for the tag named name
Dispatches(mv, name) == Lookup(mv, name).found

\* the error appended for a rule that returned err: the msg_ template of the
\* rule if the list has one, with {param} replaced
Reported(tags, t, err) ==
  LET errTag == getByName(tags, S_msg_ \o t.Name)
  IN  IF errTag.exists
      THEN ErrorsNew(ReplaceAll(errTag.tag.Param, S_param, t.Param))
      ELSE err

\* what validateVar does with tag i when a function is registered for it
CallEvent(mv, v, tags, i) ==
  LET t == tags[i]
      fn == Lookup(mv, t.Name).fn
      err == Apply(fn, v, t.Param)
  IN  [ev |-> "call", at |-> i, name |-> t.Name, param |-> t.Param, fn |-> fn,
       err |-> err,
       rep |-> IF err = NilErr THEN NilErr ELSE Reported(tags, t, err)]

\* the loop of validateVar from tag i on
RECURSIVE validateVarFrom(_, _, _, _, _, _)
validateVarFrom(mv, v, tags, i, errs, log) ==
  IF i > Len(tags)
  THEN [panic |-> FALSE, log |-> log,
        err |-> IF Len(errs) > 0 THEN ErrorArray(errs) ELSE NoError]
  ELSE IF ~Dispatches(mv, tags[i].Name)
       THEN IF IsReservedName(tags[i].Name)
            THEN validateVarFrom(mv, v, tags, i + 1, errs, log)
            ELSE [panic |-> FALSE, log |-> log, err |-> OneError(ErrUnknownTag)]
       ELSE Let(LAMBDA ev :
                  IF ev.err = Panics
                  THEN [panic |-> TRUE, log |-> Append(log, ev), err |-> NoError]
                  ELSE Let(LAMBDA st :
                             validateVarFrom(mv, v, tags, i + 1, st.errs, st.log),
                           [errs |-> IF ev.err = NilErr THEN errs
                                     ELSE Append(errs, ev.rep),
                            log |-> Append(log, ev)]),
                CallEvent(mv, v, tags, i))

validateVar(mv, v, tags) == validateVarFrom(mv, v, tags, 1, <<>>, <<>>)

\* mv.valid(val, tags)
RECURSIVE valid(_, _, _)
valid(mv, val, tags) ==
  IF val.kind = "ptr" /\ ~val.isNil THEN valid(mv, val.elem, tags)
  ELSE IF val.kind = "struct"
       THEN [panic |-> FALSE, log |-> <<>>, err |-> OneError(ErrUnsupported)]
       ELSE IF val.kind = "invalid" THEN validateVar(mv, NilV, tags)
            ELSE validateVar(mv, val, tags)

\* mv.Valid(val, tagsRaw)
ValidRaw(mv, val, tagsRaw) ==
  IF tagsRaw = S_dash THEN [panic |-> FALSE, log |-> <<>>, err |-> NoError]
  ELSE Let(LAMBDA p :
             IF p.err # NilErr
             THEN [panic |-> FALSE, log |-> <<>>, err |-> OneError(p.err)]
             ELSE valid(mv, val, p.tags),
           parseTagsOnce(tagsRaw))

(***************************************************************************)
(* The record traversal.                                                   *)
(***************************************************************************)
\* for f.Kind() == reflect.Ptr && !f.IsNil() { f = f.Elem() }
RECURSIVE Deref(_)
Deref(f) == IF f.kind = "ptr" /\ ~f.isNil THEN Deref(f.elem) ELSE f

\* st.Field(i).Tag.Get(tagName): empty when the tag has no such key
TagGet(fld, tagName) ==
  IF tagName \in DOMAIN fld.Tag THEN fld.Tag[tagName] ELSE <<>>

\* reflect refuses Interface() on a value read through an unexported field
ReadOnly(fld) == ~IsUpper(fld.Name[1])

\* the name the field reports under: the parameter of its attr tag, if any
DisplayName(fld, tags) ==
  LET nameTag == getByName(tags, tagAttr)
  IN  IF nameTag.exists THEN nameTag.tag.Param ELSE fld.Name

\* whether Validate descends into a record-shaped field reported as fname;
\* fname[0] of an empty name is out of range
Descends(fld, fname) == IsUpper(fname[1])

\* the first error of what valid returned, if any
FirstError(err) == IF Len(err.errs) > 0 THEN <<err.errs[1]>> ELSE <<>>

\* the events of a nested call, as events of the field that holds the record
Lift(log, name) ==
  [i \in 1..Len(log) |-> [log[i] EXCEPT !.field = name \o <<DOT>> \o log[i].field]]

\* case reflect.Struct, after the tests on fname: the map e.m of the nested
\* call merged under fname
MergeNested(fld, fname, acc, e) ==
  LET calls == SelectSeq(e.log, LAMBDA x : x.ev = "call")
      keys == {fname \o <<DOT>> \o j : j \in DOMAIN e.m}
  IN  [panic |-> e.panic,
       m |-> IF e.panic THEN acc.m
             ELSE [k \in DOMAIN acc.m \cup keys |->
                    IF k \in keys
                    THEN e.m[CHOOSE j \in DOMAIN e.m : k = fname \o <<DOT>> \o j]
                    ELSE acc.m[k]],
       log |-> acc.log \o Lift(calls, fld.Name) \o
               IF e.panic THEN <<>>
               ELSE <<[ev |-> "merge", field |-> fld.Name, keys |-> keys]>>]

\* the default case: the first error of valid stored under fname
StoreFirst(fld, fname, acc, r) ==
  LET calls == [i \in 1..Len(r.log) |-> [field |-> fld.Name] @@ r.log[i]]
      log == Append(acc.log, [ev |-> "valid", field |-> fld.Name]) \o calls
      errs == FirstError(r.err)
  IN  IF r.panic THEN [acc EXCEPT !.panic = TRUE, !.log = log]
      ELSE IF errs = <<>> THEN [acc EXCEPT !.log = log]
      ELSE [acc EXCEPT
              !.m = MapSet(acc.m, fname, errs[1]),
              !.log = Append(log, [ev |-> "set", field |-> fld.Name,
                                   key |-> fname, err |-> errs[1]])]

RECURSIVE Validate(_, _)
RECURSIVE ValidateFields(_, _, _, _)

\* one turn of the loop of Validate over the fields, on field fld whose
\* dereferenced value is f and whose annotation parsed to p, with the ErrorMap
\* and the log so far in acc
ValidateParsed(mv, fld, f, p, acc) ==
  IF p.err # NilErr
  THEN [acc EXCEPT
          !.m = MapSet(acc.m, fld.Name, p.err),
          !.log = Append(acc.log, [ev |-> "set", field |-> fld.Name,
                                    key |-> fld.Name, err |-> p.err])]
  ELSE LET fname == DisplayName(fld, p.tags)
           crash == [acc EXCEPT !.panic = TRUE]
       IN  IF f.kind = "struct"
           THEN IF fname = <<>> THEN crash
                ELSE IF ~Descends(fld, fname) THEN acc
                ELSE IF ReadOnly(fld) THEN crash
                ELSE Let(LAMBDA e : MergeNested(fld, fname, acc, e), Validate(mv, f))
           ELSE IF ReadOnly(fld) THEN crash
           ELSE Let(LAMBDA r : StoreFirst(fld, fname, acc, r), valid(mv, f, p.tags))

ValidateField(mv, fld, acc) ==
  LET f == Deref(fld.v)
      tag == TagGet(fld, vals[mv].tagName)
  IN  IF tag = S_dash \/ (tag = <<>> /\ f.kind # "struct") THEN acc
      ELSE Let(LAMBDA p : ValidateParsed(mv, fld, f, p, acc), parseTagsOnce(tag))

ValidateFields(mv, fields, i, acc) ==
  IF i > Len(fields) \/ acc.panic THEN acc
  ELSE Let(LAMBDA a : ValidateFields(mv, fields, i + 1, a),
           ValidateField(mv, fields[i], acc))

\* mv.Validate(v): whether it panicked, the ErrorMap m it built and the log
Validate(mv, v) ==
  IF v.kind = "ptr" /\ ~v.isNil THEN Validate(mv, v.elem)
  ELSE IF v.kind # "struct"
       THEN [panic |-> FALSE, m |-> (S_summary :> ErrUnsupported), log |-> <<>>]
       ELSE ValidateFields(mv, v.fields, 1,
              [panic |-> FALSE, m |-> [k \in {} |-> NilErr], log |-> <<>>])

(***************************************************************************)
(* Validation of the record the caller holds.                              *)
(***************************************************************************)
\* mv.Validate(arg.rec); the package's Validate(v) is ValidateCall(1)
ValidateCall(mv) ==
  /\ arg.kind = "record"
  /\ out' = [call |-> "Validate", ret |-> Validate(mv, arg.rec)]
  /\ UNCHANGED <<vals, heap, hist, arg, threads>>

\* mv.Valid(val, tagsRaw) on the value and the annotation of the first field of
\* the record; the package's Valid(val, tags) is ValidCall(1)
ValidCall(mv) ==
  /\ arg.kind = "record"
  /\ arg.rec.kind = "struct"
  /\ Len(arg.rec.fields) > 0
  /\ LET fld == arg.rec.fields[1]
     IN  out' = [call |-> "Valid",
                 ret |-> ValidRaw(mv, fld.v, TagGet(fld, DefaultTag))]
  /\ UNCHANGED <<vals, heap, hist, arg, threads>>

\* parseTags(arg.raw)
ParseCall ==
  /\ arg.kind = "annotation"
  /\ out' = [call |-> "parseTags", ret |-> parseTags(arg.raw)]
  /\ UNCHANGED <<vals, heap, hist, arg, threads>>

(***************************************************************************)
(* The records of the model.                                               *)
(***************************************************************************)
\* the struct tag `validate:"a"`
Tagged(a) == (DefaultTag :> a)

S_F == <<"F">>
S_f == <<"f">>
S_S == <<"S">>
S_N == <<"N">>
S_n == <<"n">>
S_Z == <<"Z">>

\* scalar fields: an exported one with every annotation, and an unexported one,
\* a skipped one, one with a blank name in its annotation, pointers, and an
\* unsigned one under the rule in, with a few
ScalarFields ==
  {Field(S_F, Tagged(a), v) : a \in Annotations, v \in {IntV(1), IntV(5)}} \cup
  {Field(S_f, Tagged(a), IntV(1)) :
     a \in {<<>>, Render(<<I_min>>), Render(<<I_attr_Bl, I_min>>), Render(<<I_foo>>)}} \cup
  {Field(S_F, Tagged(a), v) :
     a \in {S_dash, <<SPACE, EQ, "3">>, Render(<<I_attr_al, I_min>>)},
     v \in {IntV(1), NilPtr, PtrTo(IntV(1)), BoolV(TRUE)}} \cup
  {Field(S_F, Tagged(Render(l)), UintV(1)) :
     l \in {<<I_in>>, <<I_min, I_in>>, <<I_attr_al, I_min, I_in>>}}

\* the siblings put beside a field: one that fails under its own name, one that
\* fails under the alias al, one that reflect cannot read
Siblings ==
  {Field(S_S, Tagged(Render(<<I_min>>)), IntV(1)),
   Field(S_S, Tagged(Render(<<I_attr_al, I_max>>)), IntV(1)),
   Field(<<"s">>, Tagged(Render(<<I_min>>)), IntV(1))}

\* the fields given a sibling
WithSibling ==
  {Field(S_F, Tagged(Render(l)), IntV(1)) :
     l \in SeqsUpTo({I_min, I_foo, I_attr_al}, 2)}

\* records nested to depth d: the innermost has one field Z that fails min=3 (or
\* passes it); each record around it holds it in a field N or n, bare or with
\* an alias, directly or through a pointer
RECURSIVE Nested(_)
Nested(d) ==
  IF d <= 1
  THEN {StructV(<<Field(S_Z, Tagged(Render(<<I_min>>)), IntV(n))>>) : n \in {1, 5}}
  ELSE {StructV(<<Field(name, Tagged(a), v)>>) :
          name \in {S_N, S_n},
          a \in {<<>>, Render(<<I_attr_al>>), Render(<<I_attr_Bl>>), Render(<<I_foo>>)},
          v \in Nested(d - 1)}
       \cup {StructV(<<Field(S_N, Tagged(<<>>), PtrTo(v))>>) : v \in Nested(d - 1)}

Records ==
  {StructV(<<f>>) : f \in ScalarFields} \cup
  {StructV(<<f, g>>) : f \in WithSibling, g \in Siblings} \cup
  {StructV(<<g, f>>) : f \in WithSibling, g \in Siblings} \cup
  UNION {Nested(d) : d \in 2..MaxDepth} \cup
  {IntV(1), NilV, PtrTo(StructV(<<Field(S_F, Tagged(Render(<<I_min>>)), IntV(1))>>))}

\* the names registered while validating, beside the seeded ones
ValidateNames == {tagAttr, S_msg_min, S_foo}

InitValidate ==
  /\ heap = <<BuiltinFuncs>>
  /\ vals = <<[tagName |-> DefaultTag, validationFuncs |-> 1]>>
  /\ hist = [tag |-> <<DefaultTag>>, calls |-> <<NoCalls>>]
  /\ out = [call |-> "init"]
  /\ threads = NoThreads
  /\ arg \in {[kind |-> "record", rec |-> r] : r \in Records}

NextValidate ==
  \/ \E name \in ValidateNames : SetValidationFunc(1, name, "userFail")
  \/ SetValidationFunc(1, S_foo, NilFunc)
  \/ ValidateCall(1)
  \/ ValidCall(1)

SpecValidate == InitValidate /\ [][NextValidate]_vars

\* the annotations given to parseTags alone: names with and without spaces
\* around them, values bare or quoted, with commas, spaces and equals signs
ParseItems ==
  {Item(n, v, q) : n \in {<<"a">>, <<SPACE, "b", SPACE>>},
                   v \in {<<"1">>, <<SPACE, "2">>, <<>>, <<"x", EQ, "y">>},
                   q \in BOOLEAN} \cup
  {Item(n, <<"v", COMMA, "w">>, TRUE) : n \in {<<"a">>, <<SPACE, "b", SPACE>>}}

InitParse ==
  /\ heap = <<BuiltinFuncs>>
  /\ vals = <<[tagName |-> DefaultTag, validationFuncs |-> 1]>>
  /\ hist = [tag |-> <<DefaultTag>>, calls |-> <<NoCalls>>]
  /\ out = [call |-> "init"]
  /\ threads = NoThreads
  /\ arg \in {[kind |-> "annotation", items |-> l, raw |-> Render(l)] :
                l \in SeqsUpTo(ParseItems, MaxParseItems) \ {<<>>}}

NextParse == ParseCall

SpecParse == InitParse /\ [][NextParse]_vars

(***************************************************************************)
(* C1.  SetValidationFunc with an empty name returns a non-nil error and   *)
(* leaves every map of the heap as it was, whatever the function argument  *)
(* (nil or not) and whatever the registry holds.                           *)
(***************************************************************************)
C1_EmptyNameRejected ==
  [][\A mv \in 1..Len(vals), vf \in UserFuncs \cup {NilFunc} :
       SetValidationFunc(mv, <<>>, vf) => (out'.ret # NilErr /\ heap' = heap)]_vars

\* an empty name was refused on a registry that is no longer the seeded one
C1_Witness ==
  /\ out = [call |-> "SetValidationFunc", ret |-> ErrEmptyName]
  /\ Funcs(1) # BuiltinFuncs

(***************************************************************************)
(* C2.  A name is found in a registry exactly when the last call for it    *)
(* passed a non-nil function, or no call was made for it and it is one of  *)
(* the eight seeded names; the function found is the one last registered   *)
(* (the seeded one when none was).  The empty name is never a key.         *)
(***************************************************************************)
C2_RegistryTracksLastCall ==
  \A mv \in 1..Len(vals) :
    /\ DOMAIN Funcs(mv) \subseteq RuleNames
    /\ \A n \in RuleNames :
         LET last == hist.calls[vals[mv].validationFuncs][n]
             l == Lookup(mv, n)
         IN  /\ l.found <=> \/ last \notin {"none", NilFunc}
                            \/ last = "none" /\ n \in DOMAIN BuiltinFuncs
             /\ l.found => l.fn = IF last = "none" THEN BuiltinFuncs[n] ELSE last

\* a seeded name was removed by registering nil and a new name was added
C2_Witness ==
  \E mv \in 1..Len(vals) :
    /\ hist.calls[vals[mv].validationFuncs][S_min] = NilFunc
    /\ ~Lookup(mv, S_min).found
    /\ Lookup(mv, S_foo) = [fn |-> "userOk", found |-> TRUE]
    /\ Handles(mv) = {mv}

(***************************************************************************)
(* C3.  The tag name of every Validator is the one last given to that      *)
(* Validator itself: "validate" by NewValidator, t by the WithTag(t) that  *)
(* made it, t by a SetTag(t) on it.  WithTag does not change the tag name  *)
(* of the Validator it copies, and a SetTag on one is not seen through     *)
(* another.                                                                *)
(***************************************************************************)
C3_TagNamesIndependent ==
  \A mv \in 1..Len(vals) : vals[mv].tagName = hist.tag[mv]

\* defaultValidator and a Validator derived from it differ in tag name after a
\* SetTag
C3_Witness ==
  /\ Len(vals) >= 2
  /\ vals[2].validationFuncs = vals[1].validationFuncs
  /\ vals[1].tagName # vals[2].tagName
  /\ out.call = "SetTag"

(***************************************************************************)
(* C4.  A SetValidationFunc on one Validator leaves what every other       *)
(* Validator looks up unchanged: the copy has a registry of its own.       *)
(***************************************************************************)
C4_CopyIsIndependent ==
  [][\A mv \in 1..Len(vals), name \in RegistryNames, vf \in UserFuncs \cup {NilFunc} :
       SetValidationFunc(mv, name, vf) =>
         \A w \in 1..Len(vals) \ {mv} :
            heap'[vals'[w].validationFuncs] = heap[vals[w].validationFuncs]]_vars

(***************************************************************************)
(* The built-in rules called on their own.                                 *)
(***************************************************************************)
\* the built-in registered under arg.name, called on arg.v with arg.param
RuleCall ==
  /\ arg.kind = "rule"
  /\ out' = [call |-> "rule", ret |-> Apply(BuiltinFuncs[arg.name], arg.v, arg.param)]
  /\ UNCHANGED <<vals, heap, hist, arg, threads>>

\* the values the rules are called on: one of each kind, nil and a nil pointer
RuleValues ==
  {IntV(1), IntV(0), UintV(1), StrV(<<"a", "b">>), StrV(<<"a", "b", "c", "d">>),
   BoolV(TRUE), NilV, NilPtr}

\* a number, a list of numbers, a letter, and the two formats of typeValid
RuleParams == {<<"1">>, <<"1", COMMA, "2">>, <<"a">>, S_base64, S_timestamp}

InitRules ==
  /\ heap = <<BuiltinFuncs>>
  /\ vals = <<[tagName |-> DefaultTag, validationFuncs |-> 1]>>
  /\ hist = [tag |-> <<DefaultTag>>, calls |-> <<NoCalls>>]
  /\ out = [call |-> "init"]
  /\ threads = NoThreads
  /\ arg \in {[kind |-> "rule", name |-> n, v |-> v, param |-> p] :
                n \in DOMAIN BuiltinFuncs, v \in RuleValues, p \in RuleParams}

NextRules == RuleCall

SpecRules == InitRules /\ [][NextRules]_vars

(***************************************************************************)
(* One call of Valid and one of SetValidationFunc taken step by step, each *)
(* in its own goroutine.                                                   *)
(* The Validator has no mutex and neither call synchronises: the steps of  *)
(* the two goroutines come in any order.  A lookup made while the other    *)
(* goroutine is writing the same map is a data race: it yields the entry   *)
(* before the write, the entry after it, or the fatal error of the runtime *)
(* (concurrent map read and map write), which ends the process.            *)
(***************************************************************************)
\* a goroutine whose call has returned: each goroutine makes one call
Done == [pc |-> "done"]

\* a registry behind a lock held for the whole of a validation
CanWrite_Locked(mv) ==
  ~(/\ threads.validating.pc = "run"
    /\ vals[threads.validating.mv].validationFuncs = vals[mv].validationFuncs)

\* whether SetValidationFunc may write the map of mv now: it takes no lock
CanWrite(mv) == TRUE

\* m[name]
LookupIn(m, name) ==
  IF name \in DOMAIN m THEN [fn |-> m[name], found |-> TRUE]
  ELSE [fn |-> NilFunc, found |-> FALSE]

\* whether the writing goroutine is inside a write to the map of mv
WriteInProgress(mv) ==
  /\ threads.writing.pc = "write"
  /\ vals[threads.writing.mv].validationFuncs = vals[mv].validationFuncs

\* what mv.validationFuncs[name] may yield now
Reads(mv, name) ==
  LET m == Funcs(mv)
      w == threads.writing
  IN  IF WriteInProgress(mv)
      THEN {[fatal |-> FALSE, look |-> LookupIn(m, name)],
            [fatal |-> FALSE, look |-> LookupIn(SetFunc(m, w.name, w.vf).m, name)],
            [fatal |-> TRUE, look |-> LookupIn(m, name)]}
      ELSE {[fatal |-> FALSE, look |-> LookupIn(m, name)]}

\* Valid returning err, with the calls it made and the lookups it saw
ValidReturns(panic, err, log, seen) ==
  /\ out' = [call |-> "Valid", ret |-> [panic |-> panic, log |-> log, err |-> err],
             seen |-> seen]
  /\ threads' = [threads EXCEPT !.validating = Done]

\* mv.Valid(arg.v, arg.raw) up to the loop of validateVar
ValidStart(mv) ==
  /\ arg.kind = "value"
  /\ threads.validating.pc = "idle"
  /\ threads.writing.pc # "fatal"
  /\ LET p == parseTags(arg.raw)
         v == Deref(arg.v)
     IN  IF arg.raw = S_dash THEN ValidReturns(FALSE, NoError, <<>>, <<>>)
         ELSE IF p.err # NilErr THEN ValidReturns(FALSE, OneError(p.err), <<>>, <<>>)
         ELSE IF v.kind = "struct"
              THEN ValidReturns(FALSE, OneError(ErrUnsupported), <<>>, <<>>)
         ELSE /\ threads' = [threads EXCEPT !.validating =
                               [pc |-> "run", mv |-> mv, v |-> v, tags |-> p.tags,
                                i |-> 1, errs |-> <<>>, log |-> <<>>, seen |-> <<>>]]
              /\ UNCHANGED out
  /\ UNCHANGED <<vals, heap, hist, arg>>

\* one turn of the loop of validateVar: the lookup, then the call
ValidStep ==
  /\ threads.validating.pc = "run"
  /\ threads.validating.i <= Len(threads.validating.tags)
  /\ LET g == threads.validating
         t == g.tags[g.i]
     IN  \E r \in Reads(g.mv, t.Name) :
           LET seen == Append(g.seen, [name |-> t.Name, look |-> r.look,
                                        racing |-> WriteInProgress(g.mv)])
               err == Apply(r.look.fn, g.v, t.Param)
               rep == IF err = NilErr THEN NilErr ELSE Reported(g.tags, t, err)
               log == Append(g.log, [ev |-> "call", at |-> g.i, name |-> t.Name,
                                      param |-> t.Param, fn |-> r.look.fn,
                                      err |-> err, rep |-> rep])
           IN  IF r.fatal
               THEN /\ threads' = [validating |-> [pc |-> "fatal"],
                                   writing |-> [pc |-> "fatal"]]
                    /\ UNCHANGED out
               ELSE IF ~r.look.found
               THEN IF IsReservedName(t.Name)
                    THEN /\ threads' = [threads EXCEPT !.validating.i = g.i + 1,
                                                       !.validating.seen = seen]
                         /\ UNCHANGED out
                    ELSE ValidReturns(FALSE, OneError(ErrUnknownTag), g.log, seen)
               ELSE IF err = Panics THEN ValidReturns(TRUE, NoError, log, seen)
               ELSE /\ threads' = [threads EXCEPT
                                     !.validating.i = g.i + 1,
                                     !.validating.seen = seen,
                                     !.validating.log = log,
                                     !.validating.errs =
                                        IF err = NilErr THEN g.errs ELSE Append(g.errs, rep)]
                    /\ UNCHANGED out
  /\ UNCHANGED <<vals, heap, hist, arg>>

\* the end of validateVar
ValidReturn ==
  /\ threads.validating.pc = "run"
  /\ threads.validating.i > Len(threads.validating.tags)
  /\ LET g == threads.validating
     IN  ValidReturns(FALSE, IF Len(g.errs) > 0 THEN ErrorArray(g.errs) ELSE NoError,
                      g.log, g.seen)
  /\ UNCHANGED <<vals, heap, hist, arg>>

\* mv.SetValidationFunc(name, vf) up to its write of the map
WriteStart(mv, name, vf) ==
  /\ threads.writing.pc = "idle"
  /\ CanWrite(mv)
  /\ IF name = <<>>
     THEN /\ out' = [call |-> "SetValidationFunc", ret |-> ErrEmptyName]
          /\ UNCHANGED threads
     ELSE /\ threads' = [threads EXCEPT !.writing =
                           [pc |-> "write", mv |-> mv, name |-> name, vf |-> vf]]
          /\ UNCHANGED out
  /\ UNCHANGED <<vals, heap, hist, arg>>

\* the write of the map, and the return
WriteEnd ==
  /\ threads.writing.pc = "write"
  /\ LET w == threads.writing
         ref == vals[w.mv].validationFuncs
         r == SetFunc(heap[ref], w.name, w.vf)
     IN  /\ heap' = [heap EXCEPT ![ref] = r.m]
         /\ hist' = [hist EXCEPT !.calls[ref][w.name] = w.vf]
         /\ out' = [call |-> "SetValidationFunc", ret |-> r.err]
  /\ threads' = [threads EXCEPT !.writing = Done]
  /\ UNCHANGED <<vals, arg>>

\* the values and annotations validated while the registry is written
RaceLists == SeqsUpTo({I_min, I_foo}, MaxRaceItems) \ {<<>>}

RaceNames == {S_min, S_foo}

\* the goroutines start from the seeded registry, or from the one left by
\* SetValidationFunc("foo", userOk)
InitRace ==
  /\ \/ /\ heap = <<BuiltinFuncs>>
        /\ hist = [tag |-> <<DefaultTag>>, calls |-> <<NoCalls>>]
     \/ /\ heap = <<MapSet(BuiltinFuncs, S_foo, "userOk")>>
        /\ hist = [tag |-> <<DefaultTag>>,
                   calls |-> <<[NoCalls EXCEPT ![S_foo] = "userOk"]>>]
  /\ vals = <<[tagName |-> DefaultTag, validationFuncs |-> 1]>>
  /\ out = [call |-> "init"]
  /\ threads = NoThreads
  /\ arg \in {[kind |-> "value", v |-> v, raw |-> Render(l)] :
                v \in {IntV(1)}, l \in RaceLists}

NextRace ==
  \/ \E mv \in 1..Len(vals) : ValidStart(mv)
  \/ ValidStep
  \/ ValidReturn
  \/ \E mv \in 1..Len(vals), name \in RaceNames, vf \in {"userFail", NilFunc} :
        WriteStart(mv, name, vf)
  \/ WriteEnd
  \/ threads.validating.pc # "fatal" /\ WithTag(1, "alt")

SpecRace == InitRace /\ [][NextRace]_vars

(***************************************************************************)
(* What the last call of Validate did, read from its log.                  *)
(***************************************************************************)
Returned(call) == out.call = call

\* the top-level fields of the validated record
TopFields ==
  IF arg.kind = "record" /\ arg.rec.kind = "struct"
  THEN {arg.rec.fields[i] : i \in 1..Len(arg.rec.fields)} ELSE {}

\* the events of the log of the last call that belong to field fld
EventsOf(fld, kind) ==
  LET log == out.ret.log
  IN  {i \in 1..Len(log) : log[i].ev = kind /\ log[i].field = fld.Name}

\* the directive list written on the field
Directives(fld) == parseTagsOnce(TagGet(fld, DefaultTag)).tags

IsScalar(fld) == Deref(fld.v).kind # "struct"

\* a rule function was invoked on the value of the field and returned an error
FailsARule(fld) ==
  \E i \in EventsOf(fld, "call") :
     out.ret.log[i].err # NilErr /\ out.ret.log[i].err # Panics

\* the positions of the directives named name
Positions(tags, name) == {i \in 1..Len(tags) : tags[i].Name = name}

First(S) == CHOOSE i \in S : \A j \in S : i <= j

Occurs(T, i) ==
  i + Len(S_param) - 1 <= Len(T) /\ \A k \in 1..Len(S_param) : T[i + k - 1] = S_param[k]

\* T from position i on, with p for every occurrence of the token
RECURSIVE Substitute(_, _, _)
Substitute(T, p, i) ==
  IF i > Len(T) THEN <<>>
  ELSE IF Occurs(T, i) THEN p \o Substitute(T, p, i + Len(S_param))
       ELSE <<T[i]>> \o Substitute(T, p, i + 1)

\* the failing calls of the last Validate on the field: positions in the log
FailingCalls(fld) ==
  {i \in EventsOf(fld, "call") :
     out.ret.log[i].err # NilErr /\ out.ret.log[i].err # Panics}

C6_MessageIsFirstTemplate ==
  Returned("Validate") =>
    \A fld \in TopFields : \A i \in FailingCalls(fld) :
       LET e == out.ret.log[i]
           tags == Directives(fld)
           msgs == Positions(tags, S_msg_ \o e.name)
       IN  /\ e.name = tags[e.at].Name /\ e.param = tags[e.at].Param
           /\ e.rep = IF msgs = {} THEN e.err
                      ELSE ErrorsNew(Substitute(tags[First(msgs)].Param, e.param, 1))

\* min=3 fails beside two different msg_min templates, the first of them with
\* the token twice, and the error in the ErrorMap reads m33
C6_Witness ==
  /\ Returned("Validate")
  /\ \E fld \in TopFields : \E i \in FailingCalls(fld) :
        LET e == out.ret.log[i]
            tags == Directives(fld)
            msgs == Positions(tags, S_msg_ \o e.name)
        IN  /\ \E a, b \in msgs : tags[a].Param # tags[b].Param
            /\ \E x, y \in 1..Len(tags[First(msgs)].Param) :
                  x # y /\ Occurs(tags[First(msgs)].Param, x)
                        /\ Occurs(tags[First(msgs)].Param, y)
            /\ e.rep = ErrorsNew(<<"m", "3", "3">>)
            /\ out.ret.m = (fld.Name :> e.rep)

\* C6 as stated: the text follows every msg_r directive of the list
C6_MessageIsAnyTemplate ==
  Returned("Validate") =>
    \A fld \in TopFields : \A i \in FailingCalls(fld) :
       LET e == out.ret.log[i]
           tags == Directives(fld)
           msgs == Positions(tags, S_msg_ \o e.name)
       IN  /\ msgs = {} => e.rep = e.err
           /\ \A a \in msgs : e.rep = ErrorsNew(Substitute(tags[a].Param, e.param, 1))

(***************************************************************************)
(* C7.  A field whose directive list has a directive that is neither       *)
(* registered nor reserved gets the unknown-tag error alone: Validate      *)
(* returns, the ErrorMap holds ErrUnknownTag under the display name of the *)
(* field, no directive after the unknown one is dispatched, and the other  *)
(* keys of the ErrorMap are those of the record without the field.         *)
(***************************************************************************)
\* the positions of the directives neither registered nor reserved
UnknownAt(tags) ==
  {i \in 1..Len(tags) : ~Dispatches(1, tags[i].Name) /\ ~IsReservedName(tags[i].Name)}

\* the alias of the list if it has one, the declared name otherwise
Display(fld) ==
  LET tags == Directives(fld)
      attrs == Positions(tags, tagAttr)
  IN  IF attrs = {} THEN fld.Name ELSE tags[First(attrs)].Param

\* the validated record without the field
Without(fld) ==
  StructV(SelectSeq(arg.rec.fields, LAMBDA g : g # fld))

C7_UnknownStopsField ==
  Returned("Validate") =>
    \A fld \in TopFields :
       LET tags == Directives(fld)
           unknown == UnknownAt(tags)
           rest == Validate(1, Without(fld))
       IN  unknown # {} =>
             /\ ~out.ret.panic
             /\ Display(fld) \in DOMAIN out.ret.m
             /\ out.ret.m[Display(fld)] = ErrUnknownTag
             /\ \A i \in EventsOf(fld, "call") : out.ret.log[i].at < First(unknown)
             /\ DOMAIN out.ret.m \ {Display(fld)} = DOMAIN rest.m \ {Display(fld)}
             /\ \A key \in DOMAIN rest.m \ {Display(fld)} : out.ret.m[key] = rest.m[key]

(***************************************************************************)
(* C8.  A record-shaped field whose declared name starts with an           *)
(* upper-case letter puts every key k of the nested result into the outer  *)
(* ErrorMap as display name, dot, k, with the same error, the display name *)
(* being the alias if the field has one; a record-shaped field whose       *)
(* declared name does not start so puts no key.                            *)
(***************************************************************************)
C8_NestedKeysFollowDeclaredName ==
  Returned("Validate") =>
    \A fld \in TopFields :
       LET f == Deref(fld.v)
           prefix == Display(fld) \o <<DOT>>
           nested == Validate(1, f)
       IN  f.kind = "struct" =>
             /\ ~out.ret.panic
             /\ IF IsUpper(fld.Name[1])
                THEN \A key \in DOMAIN nested.m :
                        /\ prefix \o key \in DOMAIN out.ret.m
                        /\ out.ret.m[prefix \o key] = nested.m[key]
                ELSE \A key \in DOMAIN out.ret.m : ~HasPrefix(key, prefix)

(***************************************************************************)
(* C9.  parseTags of an annotation written from items name=value or        *)
(* name='value' returns no error and one directive per item, in the order  *)
(* written, with the trimmed name and the trimmed value without its quotes.*)
(***************************************************************************)
C9_OneDirectivePerItem ==
  Returned("parseTags") =>
    out.ret = [tags |-> [i \in 1..Len(arg.items) |->
                           [Name |-> TrimSpaces(arg.items[i].name),
                            Param |-> TrimSpaces(arg.items[i].value)]],
               err |-> NilErr]

(***************************************************************************)
(* C10.  No call of Validate or Valid hands a directive named attr, or     *)
(* with a name that starts with msg_, to a rule function, whatever has     *)
(* been registered.                                                        *)
(***************************************************************************)
C10_ReservedNeverDispatched ==
  (Returned("Validate") \/ Returned("Valid")) =>
    \A i \in 1..Len(out.ret.log) :
       out.ret.log[i].ev = "call" =>
         /\ out.ret.log[i].name # tagAttr
         /\ ~HasPrefix(out.ret.log[i].name, S_msg_)

(***************************************************************************)
(* C11.  For a scalar field whose rule directives (those neither named     *)
(* attr nor starting with msg_) are all registered, Validate returns, the  *)
(* rule functions invoked for the field are those of the rule directives,  *)
(* once each and in list order, and the ErrorMap holds for the field the   *)
(* error of the first failing one, with its msg_ override if it has one,   *)
(* or no entry when none fails.                                            *)
(***************************************************************************)
\* the positions of the rule directives of the list, in order
RuleDirectives(tags) ==
  SelectSeq([i \in 1..Len(tags) |-> i],
            LAMBDA i : tags[i].Name # tagAttr /\ ~HasPrefix(tags[i].Name, S_msg_))

\* the calls of the last Validate made for the field, in the order of the log
CallsOf(fld) ==
  SelectSeq(out.ret.log, LAMBDA e : e.ev = "call" /\ e.field = fld.Name)

C11_EveryRuleInvokedFirstErrorKept ==
  Returned("Validate") =>
    \A fld \in TopFields :
       LET tags == Directives(fld)
           rules == RuleDirectives(tags)
           calls == CallsOf(fld)
           failing == SelectSeq(calls, LAMBDA e : e.err # NilErr)
       IN  (/\ IsScalar(fld)
            /\ Len(rules) > 0
            /\ \A i \in 1..Len(rules) : Dispatches(1, tags[rules[i]].Name)) =>
             /\ ~out.ret.panic
             /\ [i \in 1..Len(calls) |-> calls[i].at] = rules
             /\ \A i \in 1..Len(calls) : calls[i].err # Panics
             /\ IF failing = <<>> THEN Display(fld) \notin DOMAIN out.ret.m
                ELSE /\ Display(fld) \in DOMAIN out.ret.m
                     /\ out.ret.m[Display(fld)] = failing[1].rep

(***************************************************************************)
(* C12.  Every built-in rule called on a value of a kind it does not       *)
(* support returns ErrUnsupported and does not panic.  The kinds a rule    *)
(* supports are those it has a meaning for: the zero test every kind of    *)
(* the model and nil, len, min and max strings and integers, regexp and    *)
(* type strings, in strings and signed integers.                           *)
(***************************************************************************)
Supports(name, kind) ==
  CASE name \in {S_notempty, S_empty} ->
         kind \in {"string", "int", "uint", "bool", "ptr", "invalid"}
    [] name \in {S_len, S_min, S_max} -> kind \in {"string", "int", "uint"}
    [] name \in {S_regexp, S_type} -> kind = "string"
    [] name = S_in -> kind \in {"string", "int"}

C12_UnsupportedKindIsAnError ==
  Returned("rule") =>
    (~Supports(arg.name, arg.v.kind) => out.ret = ErrUnsupported)

(***************************************************************************)
(* C13.  The registry is not guarded: while a goroutine is inside Valid    *)
(* on a validator, SetValidationFunc on any validator that shares its map  *)
(* can start its write, and the next lookup of the validation can be made  *)
(* while that write is in progress; so one call of Valid can see the       *)
(* registry before and after the write.                                    *)
(***************************************************************************)
C13_RegistryIsNotGuarded ==
  threads.validating.pc = "run" =>
    /\ threads.writing.pc = "idle" =>
         \A mv \in 1..Len(vals) : ENABLED WriteStart(mv, S_foo, "userFail")
    /\ (/\ threads.writing.pc = "write"
        /\ threads.validating.i <= Len(threads.validating.tags)) => ENABLED ValidStep

\* a call of Valid that looked the same name up twice, finding two different
\* entries, the second while the write was in progress
C13_Witness ==
  /\ Returned("Valid")
  /\ \E i, j \in 1..Len(out.seen) :
        /\ i < j
        /\ out.seen[i].name = out.seen[j].name
        /\ out.seen[i].look # out.seen[j].look
        /\ ~out.seen[i].racing
        /\ out.seen[j].racing

\* the same with the second lookup made after the write had returned, in a
\* process that holds a validator derived by WithTag
C13_WitnessBetween ==
  /\ Returned("Valid")
  /\ Len(vals) > 1
  /\ \E i, j \in 1..Len(out.seen) :
        /\ i < j
        /\ out.seen[i].name = out.seen[j].name
        /\ out.seen[i].look # out.seen[j].look
        /\ ~out.seen[i].racing
        /\ ~out.seen[j].racing

====
